---------------------------- MODULE Spec2Model ----------------------------
(***************************************************************************)
(* A model of the rendering core of raytracer-in-a-weekend: the f64 vector *)
(* algebra (vec3.rs), rays (ray.rs), the sphere intersection (sphere.rs),  *)
(* hit records, the nearest-hit scan and the path integrator (hit.rs), the *)
(* materials (material.rs), the background colour (color.rs) and the       *)
(* camera (camera.rs).                                                     *)
(*                                                                         *)
(* An f64 is modelled as an extended rational [n, d]: d > 0 is the         *)
(* fraction n/d in lowest terms, d = 0 is +inf (n = 1), -inf (n = -1) or   *)
(* NaN (n = 0). A result of +, -, *, / is exact when its denominator is at *)
(* most MaxDen and otherwise rounded toward zero to a multiple of          *)
(* 1/MaxDen; sqrt is exact on rational squares and otherwise rounded       *)
(* toward zero to a multiple of 1/SqrtGrid. Zero carries no sign.          *)
(***************************************************************************)
EXTENDS Integers, Sequences, FiniteSets, TLC

VARIABLES
    prims,          \* HittableList.hittables: the scene, a sequence of spheres
    ray,            \* the current ray (find_ray_color's `ray`, or an operation's input ray)
    interval0,      \* the interval shoot_ray was called with
    interval,       \* shoot_ray's `interval`, narrowed by the scan
    idx,            \* position of shoot_ray's for loop in hittables (1-based)
    hit_record,     \* shoot_ray's `hit_record` / the value an intersection returned
    bounces,        \* find_ray_color's `bounces`
    max_bounces,    \* the `bounces` argument find_ray_color was called with
    ray0,           \* the `ray` argument find_ray_color was called with
    ray_color,      \* find_ray_color's `ray_color`
    atts,           \* the attenuations of the scatters performed so far, in order
    pc,             \* position of the running operation
    result,         \* the value find_ray_color returned
    outward_normal, \* the outward_normal argument of HitRecord::new
    scatter_out,    \* the value the last Material::scatter call returned
    draw,           \* the random values the last operation drew
    cam,            \* the Camera
    st,             \* gen_ray's arguments (s, t)
    pixel,          \* the accumulated colour to_rgb is called on
    samples,        \* to_rgb's argument samples
    rgb,            \* the Rgb<u8> to_rgb returned
    img,            \* main's `img`: for each pixel, the writes made to it, in order
    rows,           \* main's `rows`: the index of the row rows.next() yields next
    row_j,          \* main's loop variable j
    row,            \* main's `row`: the enumerated row the workers draw pixels from
    workers         \* the rayon workers running for_each's closure

vars == <<prims, ray, interval0, interval, idx, hit_record, bounces, max_bounces, ray0,
          ray_color, atts, pc, result, outward_normal, scatter_out, draw, cam, st,
          pixel, samples, rgb, img, rows, row_j, row, workers>>

-----------------------------------------------------------------------------
(* f64 arithmetic *)

IAbs(i) == IF i < 0 THEN -i ELSE i

ISign(i) == IF i < 0 THEN -1 ELSE IF i > 0 THEN 1 ELSE 0

RECURSIVE GCD(_, _)
GCD(a, b) == IF b = 0 THEN a ELSE GCD(b, a % b)

\* The f64 with value n/d (d >= 0), in lowest terms; n/0 is +-inf or NaN.
Norm(n, d) ==
    IF d = 0 THEN [n |-> ISign(n), d |-> 0]
    ELSE LET g == GCD(IAbs(n), d) IN [n |-> n \div g, d |-> d \div g]

F(i) == [n |-> i, d |-> 1]

Q(n, d) == Norm(n, d)

NaN == [n |-> 0, d |-> 0]

INFINITY == [n |-> 1, d |-> 0]

IsNaN(x) == x.n = 0 /\ x.d = 0

IsFinite(x) == x.d > 0

\* The precision of an arithmetic result: a result n/d with d > MaxDen is
\* rounded toward zero to a multiple of 1/MaxDen.
MaxDen == 1024

\* exact when its denominator is at most MaxDen, else rounded toward zero.
RoundTo(exact) ==
    IF exact.d <= MaxDen THEN exact
    ELSE Norm(ISign(exact.n) * ((IAbs(exact.n) \div exact.d) * MaxDen
                                + ((IAbs(exact.n) % exact.d) * MaxDen) \div exact.d),
              MaxDen)

\* The f64 an operation with the exact result n/d (d > 0) returns.
Round(n, d) == RoundTo(Norm(n, d))

FNeg(x) == [n |-> -x.n, d |-> x.d]

FAdd(x, y) ==
    IF x.d = 0 /\ y.d = 0 THEN (IF x.n = y.n THEN x ELSE NaN)
    ELSE IF x.d = 0 THEN x
    ELSE IF y.d = 0 THEN y
    ELSE LET g == GCD(x.d, y.d)
         IN Round(x.n * (y.d \div g) + y.n * (x.d \div g), (x.d \div g) * y.d)

FSub(x, y) == FAdd(x, FNeg(y))

FMul(x, y) ==
    IF x.d = 0 \/ y.d = 0 THEN Norm(ISign(x.n) * ISign(y.n), 0)
    ELSE LET g1 == GCD(IAbs(x.n), y.d)
             g2 == GCD(IAbs(y.n), x.d)
         IN Round((x.n \div g1) * (y.n \div g2), (x.d \div g2) * (y.d \div g1))

FDiv(x, y) ==
    IF x.d = 0 \/ y.d = 0 \/ y.n = 0
    THEN Norm(ISign(x.n) * (IF y.d = 0 THEN 0 ELSE 1) * (IF y.n < 0 THEN -1 ELSE 1),
              (IF x.d = 0 THEN 0 ELSE 1) * (IF y.n = 0 THEN 0 ELSE 1))
    ELSE FMul(x, [n |-> ISign(y.n) * y.d, d |-> IAbs(y.n)])

\* n1/d1 < n2/d2 for d1, d2 > 0, by integer parts and then by the reciprocals
\* of the fractional parts, so that no product is formed.
RECURSIVE RatLt(_, _, _, _)
RatLt(n1, d1, n2, d2) ==
    LET q1 == n1 \div d1
        q2 == n2 \div d2
        r1 == n1 % d1
        r2 == n2 % d2
    IN IF q1 # q2 THEN q1 < q2
       ELSE IF r2 = 0 THEN FALSE
       ELSE IF r1 = 0 THEN TRUE
       ELSE RatLt(d2, r2, d1, r1)

\* x < y on f64: false when either is NaN.
FLt(x, y) ==
    /\ ~IsNaN(x)
    /\ ~IsNaN(y)
    /\ IF x.d = 0 \/ y.d = 0
       THEN (IF x.d = 0 /\ y.d = 0 THEN x.n < y.n
             ELSE IF x.d = 0 THEN x.n < 0
             ELSE y.n > 0)
       ELSE RatLt(x.n, x.d, y.n, y.d)

\* x <= y on f64.
FLe(x, y) == ~IsNaN(x) /\ ~IsNaN(y) /\ ~FLt(y, x)

\* x == y on f64: false when either is NaN.
FEq(x, y) == ~IsNaN(x) /\ ~IsNaN(y) /\ x = y

FAbs(x) == [n |-> IAbs(x.n), d |-> x.d]

\* f64::min: the other operand when one is NaN.
FMin(x, y) == IF IsNaN(x) THEN y ELSE IF IsNaN(y) THEN x ELSE IF FLt(y, x) THEN y ELSE x

RECURSIVE FPowi(_, _)
FPowi(x, k) == IF k = 0 THEN F(1) ELSE FMul(x, FPowi(x, k - 1))

\* Resolution of an inexact square root.
SqrtGrid == 16

RECURSIVE ISqrtBetween(_, _, _)
ISqrtBetween(n, lo, hi) ==
    IF lo >= hi THEN lo
    ELSE LET mid == (lo + hi + 1) \div 2
         IN IF mid * mid <= n THEN ISqrtBetween(n, mid, hi)
            ELSE ISqrtBetween(n, lo, mid - 1)

\* floor(sqrt(n)) for n >= 0.
ISqrt(n) == ISqrtBetween(n, 0, IF n < 46340 THEN n ELSE 46340)

\* f64::sqrt: NaN below zero, exact on a rational square, else rounded toward zero.
FSqrt(x) ==
    IF x.d = 0 THEN (IF x.n = 1 THEN x ELSE NaN)
    ELSE IF x.n < 0 THEN NaN
    ELSE LET rn == ISqrt(x.n)
             rd == ISqrt(x.d)
         IN IF rn * rn = x.n /\ rd * rd = x.d THEN [n |-> rn, d |-> rd]
            ELSE Norm(ISqrt((x.n * SqrtGrid * SqrtGrid) \div x.d), SqrtGrid)

-----------------------------------------------------------------------------
(* vec3.rs *)

Vec3(x, y, z) == [x |-> x, y |-> y, z |-> z]

\* The vector with integer components.
V(i, j, k) == Vec3(F(i), F(j), F(k))

VNeg(v) == Vec3(FNeg(v.x), FNeg(v.y), FNeg(v.z))

VAdd(u, v) == Vec3(FAdd(u.x, v.x), FAdd(u.y, v.y), FAdd(u.z, v.z))

VSub(u, v) == VAdd(u, VNeg(v))

\* Vec3 * Vec3, component-wise.
VMul(u, v) == Vec3(FMul(u.x, v.x), FMul(u.y, v.y), FMul(u.z, v.z))

\* Vec3 * f64 and f64 * Vec3.
VScale(v, k) == Vec3(FMul(v.x, k), FMul(v.y, k), FMul(v.z, k))

\* Vec3 / f64: self * (1.0 / rhs).
VDiv(v, k) == VScale(v, FDiv(F(1), k))

dot(u, v) == FAdd(FAdd(FMul(u.x, v.x), FMul(u.y, v.y)), FMul(u.z, v.z))

cross(u, v) ==
    Vec3(FSub(FMul(u.y, v.z), FMul(u.z, v.y)),
         FSub(FMul(u.z, v.x), FMul(u.x, v.z)),
         FSub(FMul(u.x, v.y), FMul(u.y, v.x)))

len_squared(v) == FAdd(FAdd(FMul(v.x, v.x), FMul(v.y, v.y)), FMul(v.z, v.z))

len(v) == FSqrt(len_squared(v))

unit_vec(v) == VDiv(v, len(v))

reflect(v, normal) == VSub(v, VScale(VScale(normal, dot(v, normal)), F(2)))

\* refract without the component parallel to the normal.
refract_perpendicular_only(v, normal, eta_ratio) ==
    LET cos_theta == FNeg(FMin(dot(v, normal), F(1)))
    IN VScale(VAdd(v, VScale(normal, cos_theta)), eta_ratio)

\* ray_perpendicular + ray_parallel of refract.
refract_sum(ray_perpendicular, normal) ==
    VAdd(ray_perpendicular,
         VScale(normal, FNeg(FSqrt(FAbs(FSub(F(1), len_squared(ray_perpendicular)))))))

refract(v, normal, eta_ratio) ==
    refract_sum(VScale(VAdd(v, VScale(normal, FNeg(FMin(dot(v, normal), F(1))))), eta_ratio),
                normal)

almost_zero == Q(1, 100000000)

is_near_zero(v) == \E val \in {v.x, v.y, v.z} : FLt(FAbs(val), almost_zero)

-----------------------------------------------------------------------------
(* ray.rs *)

Ray(origin, direction) == [origin |-> origin, direction |-> direction]

at(r, t) == VAdd(r.origin, VScale(r.direction, t))

-----------------------------------------------------------------------------
(* Option<T>: None is the empty sequence, Some(x) the sequence of x alone. *)

None == <<>>

Some(x) == <<x>>

IsSome(o) == o # <<>>

Unwrap(o) == o[1]

-----------------------------------------------------------------------------
(* hit.rs: HitRecord *)

\* HitRecord::new keeping the outward normal on a back face and negating it on a front face.
HitRecord_new_swapped(t, p, outward, r, material) ==
    LET front_face == FLt(dot(r.direction, outward), F(0))
        normal == IF front_face THEN VNeg(outward) ELSE outward
    IN [t |-> t, p |-> p, normal |-> normal, front_face |-> front_face,
        material |-> material]

\* The record of a hit on the face front_face says.
HitRecord(t, p, outward, front_face, material) ==
    [t |-> t, p |-> p, normal |-> IF front_face THEN outward ELSE VNeg(outward),
     front_face |-> front_face, material |-> material]

HitRecord_new(t, p, outward, r, material) ==
    HitRecord(t, p, outward, FLt(dot(r.direction, outward), F(0)), material)

-----------------------------------------------------------------------------
(* sphere.rs *)

Sphere(center, radius, material) ==
    [center |-> center, radius |-> radius, material |-> material]

Range(start, end) == [start |-> start, end |-> end]

\* contains with the upper bound included.
contains_closed(iv, x) == FLe(iv.start, x) /\ FLe(x, iv.end)

\* Range<f64>::contains: start <= x && x < end.
contains(iv, x) == FLe(iv.start, x) /\ FLt(x, iv.end)

\* The quadratic's coefficients and discriminant for sphere s and ray r.
quadratic_of(a, half_b, c) ==
    [a |-> a, half_b |-> half_b, discriminant |-> FSub(FMul(half_b, half_b), FMul(a, c))]

\* The quadratic for the vector oc from the centre to the ray's origin.
quadratic_from(oc, direction, radius) ==
    quadratic_of(len_squared(direction), dot(oc, direction),
                 FSub(len_squared(oc), FMul(radius, radius)))

quadratic(s, r) == quadratic_from(VSub(r.origin, s.center), r.direction, s.radius)

\* (-half_b - sqrt(discriminant)) / a
root_minus(q) == FDiv(FSub(FNeg(q.half_b), FSqrt(q.discriminant)), q.a)

\* (-half_b + sqrt(discriminant)) / a
root_plus(q) == FDiv(FAdd(FNeg(q.half_b), FSqrt(q.discriminant)), q.a)

\* first if the interval contains it, else second if the interval contains
\* that, else None.
first_contained(iv, first, second) ==
    IF contains(iv, first) THEN Some(first)
    ELSE IF contains(iv, second) THEN Some(second)
    ELSE None

\* select_root trying the plus root first.
select_root_plus_first(q, iv) ==
    IF FLt(q.discriminant, F(0)) THEN None
    ELSE first_contained(iv, root_plus(q), root_minus(q))

\* The root try_hit settles on, if any: the minus root when the interval
\* contains it, else the plus root when the interval contains that.
select_root(q, iv) ==
    IF FLt(q.discriminant, F(0)) THEN None
    ELSE first_contained(iv, root_minus(q), root_plus(q))

\* The outward normal try_hit hands to HitRecord::new for the root.
sphere_outward_normal(s, r, root) == VDiv(VSub(at(r, root), s.center), s.radius)

\* The hit record try_hit builds for the root it settled on.
hit_at_root(s, r, root) ==
    IF ~IsSome(root) THEN None
    ELSE Some(HitRecord_new(Unwrap(root), at(r, Unwrap(root)),
                            sphere_outward_normal(s, r, Unwrap(root)), r, s.material))

try_hit(s, r, iv) == hit_at_root(s, r, select_root(quadratic(s, r), iv))

-----------------------------------------------------------------------------
(* material.rs: the material values *)

Lambertian(albedo) == [kind |-> "Lambertian", albedo |-> albedo]

Metal(albedo, fuzz) == [kind |-> "Metal", albedo |-> albedo, fuzz |-> FMin(fuzz, F(1))]

Dielectric(refraction) == [kind |-> "Dielectric", refraction |-> refraction]

-----------------------------------------------------------------------------
(* color.rs *)

WHITE == Vec3(F(1), F(1), F(1))

BLACK == Vec3(F(0), F(0), F(0))

LIGHT_BLUE == Vec3(Q(1, 2), Q(7, 10), F(1))

\* (1.0 - t) * WHITE + t * LIGHT_BLUE
lerp(t) == VAdd(VScale(WHITE, FSub(F(1), t)), VScale(LIGHT_BLUE, t))

\* Turn a ray into a color by lerp'ing white -> blue.
Color_from(r) == lerp(FMul(Q(1, 2), FAdd(unit_vec(r.direction).y, F(1))))

-----------------------------------------------------------------------------
(* vec3.rs: the random generators. fastrand::f64() returns a value of      *)
(* [0, 1); the model draws it from Uniform01.                              *)

Uniform01 == {F(0), Q(1, 8), Q(1, 2), Q(7, 8)}

\* Vec3::rand_range(range) on the three draws u.
rand_range(range, u) ==
    LET range_len == FSub(range.end, range.start)
    IN Vec3(FAdd(range.start, FMul(range_len, u[1])),
            FAdd(range.start, FMul(range_len, u[2])),
            FAdd(range.start, FMul(range_len, u[3])))

\* The values Vec3::rand_in_unit_sphere() may return: the candidates its loop accepts.
rand_in_unit_sphere ==
    { vec \in { rand_range(Range(F(-1), F(1)), <<u1, u2, u3>>) :
                    u1 \in Uniform01, u2 \in Uniform01, u3 \in Uniform01 } :
        FLt(len_squared(vec), F(1)) }

\* The values Vec3::rand_in_unit_disk() may return.
rand_in_unit_disk ==
    { vec \in { Vec3(FAdd(F(-1), FMul(F(2), u1)), FAdd(F(-1), FMul(F(2), u2)), F(0)) :
                    u1 \in Uniform01, u2 \in Uniform01 } :
        FLt(len_squared(vec), F(1)) }

\* Vec3::rand_unit_vec() on the unit-sphere sample it drew.
rand_unit_vec(in_unit_sphere) == unit_vec(in_unit_sphere)

-----------------------------------------------------------------------------
(* material.rs: Material::scatter. rnd holds the value the call draws:     *)
(* rnd.sphere from rand_in_unit_sphere or rnd.f64 from fastrand::f64().    *)

Scatter(scattered, attenuation) == [ray |-> scattered, attenuation |-> attenuation]

\* The catch of a degenerate scatter direction.
or_normal(scatter_direction, normal) ==
    IF is_near_zero(scatter_direction) THEN normal ELSE scatter_direction

Lambertian_scatter(m, hit, r, rnd) ==
    Some(Scatter(Ray(hit.p, or_normal(VAdd(hit.normal, rand_unit_vec(rnd.sphere)), hit.normal)),
                 m.albedo))

\* The scattered ray of a Metal, unless it points into the surface.
if_outward(scattered, normal, albedo) ==
    IF FLt(F(0), dot(scattered.direction, normal)) THEN Some(Scatter(scattered, albedo))
    ELSE None

Metal_scatter(m, hit, r, rnd) ==
    if_outward(Ray(hit.p, VAdd(reflect(unit_vec(r.direction), hit.normal),
                               VScale(rnd.sphere, m.fuzz))),
               hit.normal, m.albedo)

\* Schlick's approximation for reflectance:
\* r0 + (1.0 - r0) * (1.0 - cos).powi(5) for the squared r0.
schlick(r0, cos) == FAdd(r0, FMul(FSub(F(1), r0), FPowi(FSub(F(1), cos), 5)))

\* x * x
squared(x) == FMul(x, x)

reflectance(cos, refraction) ==
    schlick(squared(FDiv(FSub(F(1), refraction), FAdd(F(1), refraction))), cos)

\* The direction a Dielectric scatters to: reflected when the ray cannot
\* refract or the draw is below the reflectance, refracted otherwise.
Dielectric_direction(unit_direction, normal, refrac_ratio, cos_theta, f64) ==
    IF \/ FLt(F(1), FMul(refrac_ratio, FSqrt(FSub(F(1), FMul(cos_theta, cos_theta)))))
       \/ FLt(f64, reflectance(cos_theta, refrac_ratio))
    THEN reflect(unit_direction, normal)
    ELSE refract(unit_direction, normal, refrac_ratio)

\* Dielectric::scatter on the unit direction of the incoming ray.
Dielectric_scatter_unit(unit_direction, hit, refrac_ratio, f64) ==
    Some(Scatter(Ray(hit.p,
                     Dielectric_direction(unit_direction, hit.normal, refrac_ratio,
                                          FNeg(FMin(dot(unit_direction, hit.normal), F(1))),
                                          f64)),
                 WHITE))

Dielectric_scatter(m, hit, r, rnd) ==
    Dielectric_scatter_unit(unit_vec(r.direction), hit,
                            IF hit.front_face THEN FDiv(F(1), m.refraction) ELSE m.refraction,
                            rnd.f64)

\* HitRecord::scatter: the hit material's scatter.
scatter(hit, r, rnd) ==
    IF hit.material.kind = "Lambertian" THEN Lambertian_scatter(hit.material, hit, r, rnd)
    ELSE IF hit.material.kind = "Metal" THEN Metal_scatter(hit.material, hit, r, rnd)
    ELSE Dielectric_scatter(hit.material, hit, r, rnd)

\* The random values a scatter call on material m may draw: a Dielectric
\* draws one fastrand::f64(), the others one unit-sphere sample.
ScatterDraws(m) ==
    IF m.kind = "Dielectric" THEN { [f64 |-> u] : u \in Uniform01 }
    ELSE { [sphere |-> v] : v \in rand_in_unit_sphere }

-----------------------------------------------------------------------------
(* Bounds of the inputs *)

\* Ray origins have x in -MaxCoord..MaxCoord.
MaxCoord == 3

\* Ray directions have x in -MaxDir..MaxDir.
MaxDir == 2

\* Sphere radii are 1..MaxRadius.
MaxRadius == 2

\* Finite interval bounds are 0..MaxT.
MaxT == 4

\* Components of the vectors handed to HitRecord::new are in -MaxAxis..MaxAxis.
MaxAxis == 1

-----------------------------------------------------------------------------
(* Sphere::try_hit, called once on a sphere, a ray and an interval *)

TryHitRays ==
    { Ray(V(ox, oy, 0), V(dx, dy, 0)) :
        ox \in -MaxCoord..MaxCoord, oy \in 0..1, dx \in -MaxDir..MaxDir, dy \in -1..1 }

TryHitIntervals ==
    { iv \in { Range(s, e) : s \in {Q(1, 1000)} \cup {F(i) : i \in 0..MaxT},
                             e \in {INFINITY} \cup {F(i) : i \in 0..MaxT} } :
        FLt(iv.start, iv.end) }

TryHitInit ==
    /\ prims \in { <<Sphere(V(0, 0, 0), F(r), Lambertian(WHITE))>> : r \in 1..MaxRadius }
    /\ ray \in TryHitRays
    /\ interval \in TryHitIntervals
    /\ interval0 = interval
    /\ idx = 1
    /\ hit_record = None
    /\ pc = "call"
    /\ bounces = 0 /\ max_bounces = 0 /\ ray0 = None /\ ray_color = None /\ atts = <<>>
    /\ result = None /\ outward_normal = None /\ scatter_out = None /\ draw = None
    /\ cam = None /\ st = None
    /\ pixel = None /\ samples = None /\ rgb = None
    /\ img = None /\ rows = 0 /\ row_j = 0 /\ row = None /\ workers = None

TryHitCall ==
    /\ pc = "call"
    /\ hit_record' = try_hit(prims[idx], ray, interval)
    /\ pc' = "returned"
    /\ UNCHANGED <<prims, ray, interval0, interval, idx, bounces, max_bounces, ray0,
                   ray_color, atts, result, outward_normal, scatter_out, draw, cam, st,
                   pixel, samples, rgb, img, rows, row_j, row, workers>>

SpecTryHit == TryHitInit /\ [][TryHitCall]_vars

-----------------------------------------------------------------------------
(* HitRecord::new, called once on a ray and an outward normal *)

AxisVecs == { V(i, j, k) : i \in -MaxAxis..MaxAxis, j \in -MaxAxis..MaxAxis, k \in -MaxAxis..MaxAxis }

HitRecordInit ==
    /\ ray \in { Ray(V(0, 0, 0), d) : d \in AxisVecs }
    /\ outward_normal \in AxisVecs
    /\ hit_record = None
    /\ pc = "call"
    /\ prims = <<>> /\ interval0 = None /\ interval = None /\ idx = 0
    /\ bounces = 0 /\ max_bounces = 0 /\ ray0 = None /\ ray_color = None /\ atts = <<>>
    /\ result = None /\ scatter_out = None /\ draw = None /\ cam = None /\ st = None
    /\ pixel = None /\ samples = None /\ rgb = None
    /\ img = None /\ rows = 0 /\ row_j = 0 /\ row = None /\ workers = None

HitRecordCall ==
    /\ pc = "call"
    /\ hit_record' = Some(HitRecord_new(F(1), at(ray, F(1)), outward_normal, ray,
                                        Lambertian(WHITE)))
    /\ pc' = "returned"
    /\ UNCHANGED <<prims, ray, interval0, interval, idx, bounces, max_bounces, ray0,
                   ray_color, atts, result, outward_normal, scatter_out, draw, cam, st,
                   pixel, samples, rgb, img, rows, row_j, row, workers>>

SpecHitRecord == HitRecordInit /\ [][HitRecordCall]_vars

-----------------------------------------------------------------------------
(* Claims about Sphere::try_hit and HitRecord::new *)

\* The hit try_hit returned, and whether it returned one.
Returned == pc = "returned" /\ IsSome(hit_record)

\* C1 as stated: whenever Sphere::try_hit returns a hit record, its t lies
\* strictly inside the interval, min < t < max.
C1_StrictlyInside ==
    Returned => FLt(interval.start, Unwrap(hit_record).t) /\ FLt(Unwrap(hit_record).t, interval.end)

\* C1 as amended: whenever Sphere::try_hit returns a hit record, its t lies in
\* the half-open interval, min <= t < max: a root equal to max is never
\* returned, a root equal to min is.
C1_HalfOpen ==
    Returned => FLe(interval.start, Unwrap(hit_record).t) /\ FLt(Unwrap(hit_record).t, interval.end)

\* A hit whose t is exactly the interval's lower bound has been returned.
C1_Witness == Returned /\ FEq(Unwrap(hit_record).t, interval.start)

\* C9: with a non-negative discriminant the minus root is returned when the
\* interval contains it, the plus root only when it does not; when the interval
\* contains both the returned t is the smaller; when it contains neither, or
\* the discriminant is negative, nothing is returned.
C9_RootOrder ==
    pc = "returned" =>
        LET q == quadratic(prims[idx], ray)
            r1 == root_minus(q)
            r2 == root_plus(q)
            in1 == FLe(interval.start, r1) /\ FLt(r1, interval.end)
            in2 == FLe(interval.start, r2) /\ FLt(r2, interval.end)
            real == ~FLt(q.discriminant, F(0))
        IN /\ (~real \/ (~in1 /\ ~in2)) <=> ~IsSome(hit_record)
           /\ (real /\ in1) => Unwrap(hit_record).t = r1
           /\ (real /\ ~in1 /\ in2) => Unwrap(hit_record).t = r2
           /\ (real /\ in1 /\ in2) =>
                  FLe(Unwrap(hit_record).t, r1) /\ FLe(Unwrap(hit_record).t, r2)

\* Both roots lie in the interval and differ, and the smaller was returned.
C9_Witness ==
    /\ Returned
    /\ LET q == quadratic(prims[idx], ray)
       IN /\ contains(interval, root_minus(q))
          /\ contains(interval, root_plus(q))
          /\ FLt(root_minus(q), root_plus(q))
          /\ Unwrap(hit_record).t = root_minus(q)

\* C7: front_face is true iff ray.direction . outward_normal < 0, the stored
\* normal is outward_normal when front_face and its negation otherwise, and
\* the stored normal satisfies normal . ray.direction <= 0.
C7_FrontFace ==
    Returned =>
        LET h == Unwrap(hit_record)
        IN /\ h.front_face <=> FLt(dot(ray.direction, outward_normal), F(0))
           /\ h.normal = (IF h.front_face THEN outward_normal ELSE VNeg(outward_normal))
           /\ FLe(dot(h.normal, ray.direction), F(0))

\* A back-face hit: the outward normal pointed along the ray and was negated.
C7_Witness ==
    /\ Returned
    /\ ~Unwrap(hit_record).front_face
    /\ FLt(F(0), dot(ray.direction, outward_normal))
    /\ Unwrap(hit_record).normal = VNeg(outward_normal)

-----------------------------------------------------------------------------
(* hit.rs: HittableList::shoot_ray, one action per iteration of its for loop *)

\* One iteration of the for loop that leaves interval.end as it was.
ScanStep_no_narrow ==
    /\ pc = "scan"
    /\ idx <= Len(prims)
    /\ LET hit == try_hit(prims[idx], ray, interval)
       IN IF IsSome(hit)
          THEN /\ interval' = interval
               /\ hit_record' = hit
          ELSE UNCHANGED <<interval, hit_record>>
    /\ idx' = idx + 1
    /\ UNCHANGED <<prims, ray, interval0, bounces, max_bounces, ray0, ray_color, atts, pc,
                   result, outward_normal, scatter_out, draw, cam, st,
                   pixel, samples, rgb, img, rows, row_j, row, workers>>

\* if let Some(hit) = hittable.try_hit(..): narrow the interval and record the hit.
IfLetSomeHit(hit) ==
    IF IsSome(hit)
    THEN /\ interval' = Range(interval.start, Unwrap(hit).t)
         /\ hit_record' = hit
    ELSE UNCHANGED <<interval, hit_record>>

\* One iteration of the for loop over hittables.
ScanStep ==
    /\ pc = "scan"
    /\ idx <= Len(prims)
    /\ IfLetSomeHit(try_hit(prims[idx], ray, interval))
    /\ idx' = idx + 1
    /\ UNCHANGED <<prims, ray, interval0, bounces, max_bounces, ray0, ray_color, atts, pc,
                   result, outward_normal, scatter_out, draw, cam, st,
                   pixel, samples, rgb, img, rows, row_j, row, workers>>

\* The for loop is over: shoot_ray returns hit_record.
ScanEnd ==
    /\ pc = "scan"
    /\ idx > Len(prims)
    /\ pc' = "match"
    /\ UNCHANGED <<prims, ray, interval0, interval, idx, hit_record, bounces, max_bounces,
                   ray0, ray_color, atts, result, outward_normal, scatter_out, draw, cam, st,
                   pixel, samples, rgb, img, rows, row_j, row, workers>>

\* Scenes hold at most MaxPrims primitives.
MaxPrims == 3

\* The spheres scenes are made of: a unit sphere at the origin, a unit sphere
\* touching it, a sphere enclosing it, and a second unit sphere at the origin
\* of another material.
SceneSpheres ==
    { Sphere(V(0, 0, 0), F(1), Lambertian(Vec3(Q(1, 2), Q(1, 2), Q(1, 2)))),
      Sphere(V(2, 0, 0), F(1), Metal(Vec3(Q(7, 10), Q(3, 5), Q(1, 2)), F(0))),
      Sphere(V(0, 0, 0), F(2), Dielectric(Q(3, 2))),
      Sphere(V(0, 0, 0), F(1), Dielectric(F(1))) }

RECURSIVE SeqsUpTo(_, _)
\* The sequences over S of length at most n.
SeqsUpTo(S, n) ==
    IF n = 0 THEN {<<>>}
    ELSE LET shorter == SeqsUpTo(S, n - 1)
         IN shorter \cup { Append(q, x) : q \in shorter, x \in S }

Scenes == SeqsUpTo(SceneSpheres, MaxPrims)

\* Rays from outside, from the centre and from the surface of the unit sphere.
ShootRays ==
    { Ray(o, d) : o \in {V(-3, 0, 0), V(0, 0, 0), V(1, 0, 0)},
                  d \in {V(1, 0, 0), V(-1, 0, 0), V(1, 1, 0)} }

ShootIntervals ==
    { Range(s, e) : s \in {Q(1, 1000), F(1)}, e \in {INFINITY, F(MaxT)} }

ShootInit ==
    /\ prims \in Scenes
    /\ ray \in ShootRays
    /\ interval \in ShootIntervals
    /\ interval0 = interval
    /\ idx = 1
    /\ hit_record = None
    /\ pc = "scan"
    /\ bounces = 0 /\ max_bounces = 0 /\ ray0 = None /\ ray_color = None /\ atts = <<>>
    /\ result = None /\ outward_normal = None /\ scatter_out = None /\ draw = None
    /\ cam = None /\ st = None
    /\ pixel = None /\ samples = None /\ rgb = None
    /\ img = None /\ rows = 0 /\ row_j = 0 /\ row = None /\ workers = None

SpecShoot == ShootInit /\ [][ScanStep \/ ScanEnd]_vars

-----------------------------------------------------------------------------
(* Claims about HittableList::shoot_ray *)

\* The primitives that report a hit against the starting interval.
Reports == { k \in 1..Len(prims) : IsSome(try_hit(prims[k], ray, interval0)) }

\* The t primitive k reports against the starting interval.
ReportedT(k) == Unwrap(try_hit(prims[k], ray, interval0)).t

\* The primitives that report the nearest t.
Nearest == { k \in Reports : \A j \in Reports : FLe(ReportedT(k), ReportedT(j)) }

\* shoot_ray returns None iff no primitive reports a hit against the starting
\* interval, and otherwise a hit at the least reported t.
C2_Result ==
    pc = "match" =>
        /\ ~IsSome(hit_record) <=> Reports = {}
        /\ IsSome(hit_record) =>
               /\ \E k \in Reports : Unwrap(hit_record).t = ReportedT(k)
               /\ \A k \in Reports : FLe(Unwrap(hit_record).t, ReportedT(k))

\* C2: shoot_ray returns None iff no primitive has a hit inside the starting
\* interval, and otherwise a hit whose t is the minimum of the t each primitive
\* reports against the starting interval; during the scan the interval's upper
\* bound never increases and its lower bound never changes.
C2_NearestHit ==
    /\ []C2_Result
    /\ [][pc = "scan" => FLe(interval'.end, interval.end) /\ interval'.start = interval.start]_vars

\* A scan over two or more primitives has ended with a hit that is not the first
\* primitive's, after the interval was narrowed.
C2_Witness ==
    /\ pc = "match"
    /\ Cardinality(Reports) >= 2
    /\ IsSome(hit_record)
    /\ 1 \in Reports
    /\ FLt(Unwrap(hit_record).t, ReportedT(1))
    /\ FLt(interval.end, interval0.end)

\* C3 as stated: when two or more primitives hit at exactly the same nearest t,
\* the hit returned is that of the last of them in iteration order.
C3_LastWins ==
    (pc = "match" /\ Cardinality(Nearest) >= 2) =>
        hit_record = try_hit(prims[CHOOSE k \in Nearest : \A j \in Nearest : j <= k], ray, interval0)

\* C3 as amended: when two or more primitives hit at exactly the same nearest
\* t, the hit returned is that of the first of them in iteration order.
C3_FirstWins ==
    (pc = "match" /\ Cardinality(Nearest) >= 2) =>
        hit_record = try_hit(prims[CHOOSE k \in Nearest : \A j \in Nearest : k <= j], ray, interval0)

\* Two primitives of different materials tie at the nearest t, and the hit
\* returned carries the material of the earlier one.
C3_Witness ==
    /\ pc = "match"
    /\ \E k, j \in Nearest :
          /\ k < j
          /\ prims[k].material # prims[j].material
          /\ \A i \in Nearest : k <= i
          /\ Unwrap(hit_record).material = prims[k].material

-----------------------------------------------------------------------------
(* hit.rs: HittableList::find_ray_color *)

\* find_ray_color is called with at most MaxBounces bounces.
MaxBounces == 3

\* find_ray_color's scenes hold at most MaxScene primitives.
MaxScene == 2

MainRays ==
    { Ray(o, d) : o \in {V(-3, 0, 0), V(0, 0, 0), V(-3, 1, 0)},
                  d \in {V(1, 0, 0), V(0, 1, 0), V(1, 1, 0)} }

Init ==
    /\ prims \in SeqsUpTo(SceneSpheres, MaxScene)
    /\ ray \in MainRays
    /\ ray0 = ray
    /\ max_bounces \in 0..MaxBounces
    /\ bounces = max_bounces
    /\ ray_color = WHITE
    /\ atts = <<>>
    /\ pc = "loop"
    /\ result = None
    /\ interval0 = None /\ interval = None /\ idx = 0 /\ hit_record = None
    /\ scatter_out = None
    /\ outward_normal = None /\ draw = None /\ cam = None /\ st = None
    /\ pixel = None /\ samples = None /\ rgb = None
    /\ img = None /\ rows = 0 /\ row_j = 0 /\ row = None /\ workers = None

\* while bounces > 0: enter the body and call shoot_ray(&ray, 0.001..f64::INFINITY).
LoopEnter ==
    /\ pc = "loop"
    /\ bounces > 0
    /\ interval0' = Range(Q(1, 1000), INFINITY)
    /\ interval' = interval0'
    /\ idx' = 1
    /\ hit_record' = None
    /\ pc' = "scan"
    /\ UNCHANGED <<prims, ray, bounces, max_bounces, ray0, ray_color, atts, result,
                   outward_normal, scatter_out, draw, cam, st,
                   pixel, samples, rgb, img, rows, row_j, row, workers>>

\* The loop ends with the bounces used up: the ray lost all energy.
Exhaust ==
    /\ pc = "loop"
    /\ ~(bounces > 0)
    /\ result' = Some(BLACK)
    /\ pc' = "exhausted"
    /\ UNCHANGED <<prims, ray, interval0, interval, idx, hit_record, bounces, max_bounces,
                   ray0, ray_color, atts, outward_normal, scatter_out, draw, cam, st,
                   pixel, samples, rgb, img, rows, row_j, row, workers>>

\* Escape returning ray_color without the background colour.
Escape_no_background ==
    /\ pc = "match"
    /\ ~IsSome(hit_record)
    /\ result' = Some(ray_color)
    /\ pc' = "escaped"
    /\ UNCHANGED <<prims, ray, interval0, interval, idx, hit_record, bounces, max_bounces,
                   ray0, ray_color, atts, outward_normal, scatter_out, draw, cam, st,
                   pixel, samples, rgb, img, rows, row_j, row, workers>>

\* shoot_ray returned None: return ray_color * Color::from(&ray).
Escape ==
    /\ pc = "match"
    /\ ~IsSome(hit_record)
    /\ result' = Some(VMul(ray_color, Color_from(ray)))
    /\ pc' = "escaped"
    /\ UNCHANGED <<prims, ray, interval0, interval, idx, hit_record, bounces, max_bounces,
                   ray0, ray_color, atts, outward_normal, scatter_out, draw, cam, st,
                   pixel, samples, rgb, img, rows, row_j, row, workers>>

\* shoot_ray returned a hit and its scatter returned None: return BLACK.
Absorb ==
    /\ pc = "match"
    /\ IsSome(hit_record)
    /\ \E rnd \in ScatterDraws(Unwrap(hit_record).material) :
          /\ ~IsSome(scatter(Unwrap(hit_record), ray, rnd))
          /\ scatter_out' = None
    /\ result' = Some(BLACK)
    /\ pc' = "absorbed"
    /\ UNCHANGED <<prims, ray, interval0, interval, idx, hit_record, bounces, max_bounces,
                   ray0, ray_color, atts, outward_normal, draw, cam, st,
                   pixel, samples, rgb, img, rows, row_j, row, workers>>

\* Bounce leaving the bounce counter as it was.
Bounce_no_decrement ==
    /\ pc = "match"
    /\ IsSome(hit_record)
    /\ \E rnd \in ScatterDraws(Unwrap(hit_record).material) :
          LET s == scatter(Unwrap(hit_record), ray, rnd)
          IN /\ IsSome(s)
             /\ scatter_out' = s
             /\ bounces' = bounces
             /\ ray' = Unwrap(s).ray
             /\ ray_color' = VMul(ray_color, Unwrap(s).attenuation)
             /\ atts' = Append(atts, Unwrap(s).attenuation)
    /\ pc' = "loop"
    /\ UNCHANGED <<prims, interval0, interval, idx, hit_record, max_bounces, ray0, result,
                   outward_normal, draw, cam, st,
                   pixel, samples, rgb, img, rows, row_j, row, workers>>

\* Bounce replacing ray_color by the attenuation instead of multiplying.
Bounce_overwrite ==
    /\ pc = "match"
    /\ IsSome(hit_record)
    /\ \E rnd \in ScatterDraws(Unwrap(hit_record).material) :
          LET s == scatter(Unwrap(hit_record), ray, rnd)
          IN /\ IsSome(s)
             /\ scatter_out' = s
             /\ bounces' = bounces - 1
             /\ ray' = Unwrap(s).ray
             /\ ray_color' = Unwrap(s).attenuation
             /\ atts' = Append(atts, Unwrap(s).attenuation)
    /\ pc' = "loop"
    /\ UNCHANGED <<prims, interval0, interval, idx, hit_record, max_bounces, ray0, result,
                   outward_normal, draw, cam, st,
                   pixel, samples, rgb, img, rows, row_j, row, workers>>

\* The arm Some((scattered, attenuation)) of the match on hit.scatter(&ray).
SomeScattered(s) ==
    /\ IsSome(s)
    /\ scatter_out' = s
    /\ bounces' = bounces - 1
    /\ ray' = Unwrap(s).ray
    /\ ray_color' = VMul(ray_color, Unwrap(s).attenuation)
    /\ atts' = Append(atts, Unwrap(s).attenuation)

\* shoot_ray returned a hit and its scatter returned a ray: shoot the scattered ray.
Bounce ==
    /\ pc = "match"
    /\ IsSome(hit_record)
    /\ \E rnd \in ScatterDraws(Unwrap(hit_record).material) :
          SomeScattered(scatter(Unwrap(hit_record), ray, rnd))
    /\ pc' = "loop"
    /\ UNCHANGED <<prims, interval0, interval, idx, hit_record, max_bounces, ray0, result,
                   outward_normal, draw, cam, st,
                   pixel, samples, rgb, img, rows, row_j, row, workers>>

Next == LoopEnter \/ ScanStep \/ ScanEnd \/ Exhaust \/ Escape \/ Absorb \/ Bounce

Spec == Init /\ [][Next]_vars

-----------------------------------------------------------------------------
(* Claims about HittableList::find_ray_color *)

\* find_ray_color has returned.
Terminal == pc \in {"escaped", "absorbed", "exhausted"}

\* C4 as stated: for a scene with no primitives, find_ray_color returns white
\* times the background colour of the input ray for every ray and every bounce
\* budget, and the bounce counter is not decremented.
C4_EmptyScene_AnyBudget ==
    (prims = <<>> /\ Terminal) =>
        /\ result = Some(VMul(WHITE, Color_from(ray0)))
        /\ bounces = max_bounces

\* C4 as amended: for a scene with no primitives and a bounce budget of at
\* least 1, find_ray_color returns white times the background colour of the
\* input ray, and the bounce counter is not decremented.
C4_EmptyScene ==
    (prims = <<>> /\ max_bounces >= 1 /\ Terminal) =>
        /\ pc = "escaped"
        /\ result = Some(VMul(WHITE, Color_from(ray0)))
        /\ bounces = max_bounces

\* An empty scene has returned the background of a ray that is not white.
C4_Witness ==
    /\ prims = <<>>
    /\ pc = "escaped"
    /\ max_bounces >= 1
    /\ result = Some(Color_from(ray0))
    /\ result # Some(WHITE)

\* The intersect-and-scatter iterations started so far: one per scatter
\* performed, and the one running or ended by an escape or an absorption.
Iterations == Len(atts) + (IF pc \in {"scan", "match", "escaped", "absorbed"} THEN 1 ELSE 0)

\* The bounce counter stays within 0..max_bounces and the loop has started at
\* most max_bounces iterations.
C5_Bounded ==
    /\ bounces >= 0
    /\ bounces <= max_bounces
    /\ Iterations <= max_bounces

\* The bounce counter decreases by exactly 1 on a scatter-and-continue step
\* and is unchanged by every other step.
C5_Step ==
    IF pc = "match" /\ pc' = "loop" THEN bounces' = bounces - 1 ELSE bounces' = bounces

\* The steps find_ray_color can still take at most: Len(prims) + 4 for each
\* remaining bounce, and those left of the running iteration; 0 once returned.
Rank ==
    IF Terminal THEN 0
    ELSE bounces * (Len(prims) + 4)
         + (IF pc = "loop" THEN Len(prims) + 3
            ELSE IF pc = "scan" THEN Len(prims) - idx + 3
            ELSE 1)

\* C5: find_ray_color always terminates (every step lowers the natural number
\* Rank, so no run is infinite): the loop performs at most max_bounces
\* intersect-and-scatter iterations, the bounce counter decreases by exactly 1
\* on each scatter-and-continue step and on no other step, and it never goes
\* below 0.
C5_Terminates ==
    /\ [](C5_Bounded /\ Rank >= 0)
    /\ [][C5_Step /\ Rank' < Rank]_vars

\* A call with a budget of at least 2 has scattered until the budget was used up.
C5_Witness ==
    /\ pc = "exhausted"
    /\ max_bounces >= 2
    /\ bounces = 0
    /\ Len(atts) = max_bounces

RECURSIVE Attenuated(_, _)
\* colour multiplied component-wise by the first k attenuations of atts, in order.
Attenuated(colour, k) ==
    IF k = 0 THEN colour ELSE VMul(Attenuated(colour, k - 1), atts[k])

\* C6: the value find_ray_color returns is black when a scatter returned None,
\* black when the bounce budget reached 0, and on escape the product of the
\* attenuations of all scatters performed, starting from white, times the
\* background colour of the current (last scattered) ray.
C6_ReturnValue ==
    /\ pc = "absorbed" => result = Some(BLACK) /\ ~IsSome(scatter_out)
    /\ pc = "exhausted" => result = Some(BLACK) /\ bounces = 0
    /\ pc = "escaped" =>
          /\ ~IsSome(hit_record)
          /\ ray = (IF atts = <<>> THEN ray0 ELSE Unwrap(scatter_out).ray)
          /\ result = Some(VMul(Attenuated(WHITE, Len(atts)), Color_from(ray)))

\* A ray escaped after two scatters whose attenuations were not white.
C6_Witness ==
    /\ pc = "escaped"
    /\ Len(atts) = 2
    /\ atts[1] # WHITE
    /\ atts[2] # WHITE
    /\ result # Some(Color_from(ray))

-----------------------------------------------------------------------------
(* material.rs: Dielectric::scatter, called once on a hit and its ray *)

\* Components of the incoming directions are in -MaxIncident..MaxIncident.
MaxIncident == 4

\* Incoming directions: the non-zero integer vectors whose length is rational.
IncidentDirections ==
    { d \in { V(i, j, k) : i \in -MaxIncident..MaxIncident, j \in -MaxIncident..MaxIncident,
                           k \in -MaxIncident..MaxIncident } :
        /\ d # V(0, 0, 0)
        /\ FMul(len(d), len(d)) = len_squared(d) }

DielectricInit ==
    /\ ray \in { Ray(V(0, 0, 0), d) : d \in IncidentDirections }
    /\ outward_normal \in {V(1, 0, 0), V(0, 1, 0), V(0, 0, 1)}
    /\ \E refraction \in {F(1), Q(3, 2)} :
          hit_record = Some(HitRecord_new(F(1), at(ray, F(1)), outward_normal, ray,
                                          Dielectric(refraction)))
    /\ scatter_out = None
    /\ draw = None
    /\ pc = "call"
    /\ prims = <<>> /\ interval0 = None /\ interval = None /\ idx = 0
    /\ bounces = 0 /\ max_bounces = 0 /\ ray0 = None /\ ray_color = None /\ atts = <<>>
    /\ result = None /\ cam = None /\ st = None
    /\ pixel = None /\ samples = None /\ rgb = None
    /\ img = None /\ rows = 0 /\ row_j = 0 /\ row = None /\ workers = None

DielectricCall ==
    /\ pc = "call"
    /\ \E rnd \in ScatterDraws(Unwrap(hit_record).material) :
          /\ draw' = rnd
          /\ scatter_out' = scatter(Unwrap(hit_record), ray, rnd)
    /\ pc' = "returned"
    /\ UNCHANGED <<prims, ray, interval0, interval, idx, hit_record, bounces, max_bounces,
                   ray0, ray_color, atts, result, outward_normal, cam, st,
                   pixel, samples, rgb, img, rows, row_j, row, workers>>

SpecDielectric == DielectricInit /\ [][DielectricCall]_vars

-----------------------------------------------------------------------------
(* Claims about Dielectric::scatter *)

Collinear(u, v) == cross(u, v) = V(0, 0, 0)

\* scatter has returned for a Dielectric of refraction index 1.0.
IndexOneReturned == pc = "returned" /\ Unwrap(hit_record).material.refraction = F(1)

\* The cosine of the incidence angle of the hit.
IncidenceCos == FNeg(dot(unit_vec(ray.direction), Unwrap(hit_record).normal))

\* The draw is below the Schlick reflectance of index 1.0, (1 - cos_theta)^5.
DrawBelowReflectance == FLt(draw.f64, FPowi(FSub(F(1), IncidenceCos), 5))

\* C8 as stated: for a Dielectric of refraction index 1.0 the scattered
\* direction is collinear with the incoming direction, for every incidence
\* angle, both faces and every value of the uniform draw.
C8_AlwaysCollinear ==
    IndexOneReturned => Collinear(Unwrap(scatter_out).ray.direction, ray.direction)

\* C8 as amended: for a Dielectric of refraction index 1.0, for every incidence
\* angle and both faces, the scattered direction is the unit incoming
\* direction (collinear, not bent) whenever the uniform draw is not below the
\* Schlick reflectance (1 - cos_theta)^5; for a smaller draw the ray is
\* reflected about the normal.
C8_CollinearUnlessReflected ==
    IndexOneReturned =>
        LET direction == Unwrap(scatter_out).ray.direction
            unit_direction == unit_vec(ray.direction)
        IN IF DrawBelowReflectance
           THEN direction = reflect(unit_direction, Unwrap(hit_record).normal)
           ELSE direction = unit_direction /\ Collinear(direction, ray.direction)

\* An oblique ray on a back face went through unbent.
C8_Witness ==
    /\ IndexOneReturned
    /\ ~Unwrap(hit_record).front_face
    /\ FLt(F(0), IncidenceCos)
    /\ FLt(IncidenceCos, F(1))
    /\ ~DrawBelowReflectance
    /\ Unwrap(scatter_out).ray.direction = unit_vec(ray.direction)

-----------------------------------------------------------------------------
(* camera.rs *)

\* (fov_vertical.to_radians() / 2.0).tan() at the vertical fields of view the
\* cameras of the model use: 90 degrees, and main's 20 degrees (0.1763..., to
\* the nearest multiple of 1/16).
half_fov_tan(fov_vertical) == IF fov_vertical = 90 THEN F(1) ELSE Q(3, 16)

Camera_new(lookfrom, lookat, vup, fov_vertical, aspect_ratio, aperture, focus_dist) ==
    LET h == half_fov_tan(fov_vertical)
        viewport_height == FMul(F(2), h)
        viewport_width == FMul(aspect_ratio, viewport_height)
        w == unit_vec(VSub(lookfrom, lookat))
        u == unit_vec(cross(vup, w))
        v == cross(w, u)
        origin == lookfrom
        x_axis == VScale(u, FMul(focus_dist, viewport_width))
        y_axis == VScale(v, FMul(focus_dist, viewport_height))
        lower_left_corner ==
            VSub(VSub(VSub(origin, VDiv(x_axis, F(2))), VDiv(y_axis, F(2))),
                 VScale(w, focus_dist))
    IN [origin |-> origin, x_axis |-> x_axis, y_axis |-> y_axis,
        lower_left_corner |-> lower_left_corner, u |-> u, v |-> v, w |-> w,
        lens_radius |-> FDiv(aperture, F(2))]

\* The offset of the ray origin for the unit-disk sample in_unit_disk.
lens_offset(c, in_unit_disk) ==
    LET rd == VScale(in_unit_disk, c.lens_radius)
    IN VAdd(VScale(c.u, rd.x), VScale(c.v, rd.y))

\* gen_ray with a direction that is not corrected for the lens offset.
gen_ray_uncorrected(c, s, t, in_unit_disk) ==
    LET off == lens_offset(c, in_unit_disk)
        sx == VScale(c.x_axis, s)
        ty == VScale(c.y_axis, t)
    IN Ray(VAdd(c.origin, off),
           VSub(VAdd(VAdd(c.lower_left_corner, sx), ty), c.origin))

\* Camera::gen_ray(s, t) on the unit-disk sample it drew.
gen_ray(c, s, t, in_unit_disk) ==
    LET off == lens_offset(c, in_unit_disk)
        sx == VScale(c.x_axis, s)
        ty == VScale(c.y_axis, t)
        origin == VAdd(c.origin, off)
        direction == VSub(VSub(VAdd(VAdd(c.lower_left_corner, sx), ty), c.origin), off)
    IN Ray(origin, direction)

\* The cameras look at the origin from a point at distance MaxEye or less on
\* the z axis, or from a point beside it.
MaxEye == 2

\* Image coordinates are multiples of 1/ImageGrid in [0, 1].
ImageGrid == 2

\* The cameras of the model, main's field of view, aspect ratio and focus
\* distance among them; on these no operation of gen_ray rounds.
Cameras ==
    { Camera_new(lookfrom, V(0, 0, 0), V(0, 1, 0), fov, aspect_ratio, aperture, focus_dist) :
        lookfrom \in {V(0, 0, z) : z \in 1..MaxEye} \cup {V(3, 0, 4), V(-4, 0, 3)},
        fov \in {20, 90},
        aspect_ratio \in {F(1), Q(16, 9)},
        aperture \in {F(0), Q(1, 2), F(2)},
        focus_dist \in {F(1), F(10)} }

CameraInit ==
    /\ cam \in Cameras
    /\ st \in { <<Q(i, ImageGrid), Q(j, ImageGrid)>> : i \in 0..ImageGrid, j \in 0..ImageGrid }
    /\ ray = None
    /\ draw = None
    /\ pc = "call"
    /\ prims = <<>> /\ interval0 = None /\ interval = None /\ idx = 0 /\ hit_record = None
    /\ bounces = 0 /\ max_bounces = 0 /\ ray0 = None /\ ray_color = None /\ atts = <<>>
    /\ result = None /\ outward_normal = None /\ scatter_out = None
    /\ pixel = None /\ samples = None /\ rgb = None
    /\ img = None /\ rows = 0 /\ row_j = 0 /\ row = None /\ workers = None

GenRayCall ==
    /\ pc = "call"
    /\ \E in_unit_disk \in rand_in_unit_disk :
          /\ draw' = in_unit_disk
          /\ ray' = gen_ray(cam, st[1], st[2], in_unit_disk)
    /\ pc' = "returned"
    /\ UNCHANGED <<prims, interval0, interval, idx, hit_record, bounces, max_bounces, ray0,
                   ray_color, atts, result, outward_normal, scatter_out, cam, st,
                   pixel, samples, rgb, img, rows, row_j, row, workers>>

SpecCamera == CameraInit /\ [][GenRayCall]_vars

-----------------------------------------------------------------------------
(* Claims about Camera::gen_ray *)

\* u == v on Vec3, component by component.
VEq(u, v) == FEq(u.x, v.x) /\ FEq(u.y, v.y) /\ FEq(u.z, v.z)

\* The point of the focus plane at image coordinates st.
FocusTarget ==
    VAdd(VAdd(cam.lower_left_corner, VScale(cam.x_axis, st[1])), VScale(cam.y_axis, st[2]))

\* C10: gen_ray(s, t) returns a ray whose origin is the eye position displaced
\* by the lens offset and whose point at parameter 1, origin + direction, is
\* lower_left_corner + s*x_axis + t*y_axis for every lens sample.
C10_FocusPoint ==
    pc = "returned" =>
        /\ VEq(ray.origin, VAdd(cam.origin, lens_offset(cam, draw)))
        /\ VEq(at(ray, F(1)), FocusTarget)

\* A ray left the lens away from the eye and still passes through the focus target.
C10_Witness ==
    /\ pc = "returned"
    /\ lens_offset(cam, draw) # V(0, 0, 0)
    /\ ray.origin # cam.origin
    /\ VEq(at(ray, F(1)), FocusTarget)

-----------------------------------------------------------------------------
(* color.rs: Color::to_rgb, called once on an accumulated colour *)

\* f64::clamp(min, max): min below min, max above max, NaN for NaN.
clamp(x, min, max) == IF FLt(x, min) THEN min ELSE IF FLt(max, x) THEN max ELSE x

\* f64 as u8: NaN to 0, truncation toward zero, saturation at 0 and at 255.
as_u8(x) ==
    IF IsNaN(x) THEN 0
    ELSE IF x.d = 0 THEN (IF x.n > 0 THEN 255 ELSE 0)
    ELSE IF x.n < 0 THEN 0
    ELSE IF x.n \div x.d > 255 THEN 255
    ELSE x.n \div x.d

\* A channel of to_rgb without the square root of the gamma correction.
channel_no_gamma(c, n) == as_u8(FMul(F(256), clamp(FDiv(c, n), F(0), Q(999, 1000))))

\* (256.0 * (c / samples).sqrt().clamp(0.0, 0.999)) as u8
channel(c, n) == as_u8(FMul(F(256), clamp(FSqrt(FDiv(c, n)), F(0), Q(999, 1000))))

\* Color::to_rgb: the channels r, g, b.
to_rgb(color, n) == <<channel(color.x, n), channel(color.y, n), channel(color.z, n)>>

\* Components of the colours to_rgb is called on are the multiples of 1/4 from
\* -1/4 to MaxComponent/4, main's sample count, NaN and infinity.
MaxComponent == 9

Components ==
    { Q(i, 4) : i \in -1..MaxComponent } \cup {F(500), NaN, INFINITY}

\* The sample counts: none, one, a few, and main's PIXEL_SAMPLES.
SampleCounts == {F(0), F(1), F(4), F(500)}

ToRgbInit ==
    /\ pixel \in { Vec3(x, y, z) : x \in Components, y \in Components, z \in Components }
    /\ samples \in SampleCounts
    /\ rgb = None
    /\ img = None /\ rows = 0 /\ row_j = 0 /\ row = None /\ workers = None
    /\ pc = "call"
    /\ prims = <<>> /\ ray = None /\ interval0 = None /\ interval = None /\ idx = 0
    /\ hit_record = None /\ bounces = 0 /\ max_bounces = 0 /\ ray0 = None
    /\ ray_color = None /\ atts = <<>> /\ result = None /\ outward_normal = None
    /\ scatter_out = None /\ draw = None /\ cam = None /\ st = None

ToRgbCall ==
    /\ pc = "call"
    /\ rgb' = to_rgb(pixel, samples)
    /\ pc' = "returned"
    /\ UNCHANGED <<prims, ray, interval0, interval, idx, hit_record, bounces, max_bounces,
                   ray0, ray_color, atts, result, outward_normal, scatter_out, draw, cam, st,
                   pixel, samples, img, rows, row_j, row, workers>>

SpecToRgb == ToRgbInit /\ [][ToRgbCall]_vars

-----------------------------------------------------------------------------
(* Claims about Color::to_rgb *)

\* floor(256 * min(0.999, s)) for a square root s that is not NaN.
FloorScaled(s) == IF FLt(Q(999, 1000), s) THEN (256 * 999) \div 1000 ELSE (256 * s.n) \div s.d

\* Channel k is what the claim gives for component c: within 0..255; 0 when
\* the square root of c / samples is NaN and floor(256 * min(0.999, sqrt))
\* otherwise; where the square root is exact and k < 255, k/256 is the largest
\* multiple of 1/256 whose square is at most c / samples; 255 when c / samples
\* is exactly 1; 0 when c is 0.
ChannelAsClaimed(c, k) ==
    LET q == FDiv(c, samples)
        s == FSqrt(q)
    IN /\ k \in 0..255
       /\ k = (IF IsNaN(s) THEN 0 ELSE FloorScaled(s))
       /\ (IsFinite(q) /\ FMul(s, s) = q /\ k < 255) =>
              /\ k * k * q.d <= 65536 * q.n
              /\ 65536 * q.n < (k + 1) * (k + 1) * q.d
       /\ q = F(1) => k = 255
       /\ c = F(0) => k = 0

\* C11: to_rgb(samples) maps each accumulated component c to the channel
\* floor(256 * min(0.999, sqrt(c / samples))) clamped below at 0: every channel
\* lies in 0..255, a component with c / samples exactly 1 maps to 255, and a
\* component 0 maps to 0.
C11_Channels ==
    pc = "returned" =>
        /\ ChannelAsClaimed(pixel.x, rgb[1])
        /\ ChannelAsClaimed(pixel.y, rgb[2])
        /\ ChannelAsClaimed(pixel.z, rgb[3])

\* to_rgb returned 255 for a component equal to the sample count, 128 for a
\* quarter of it, and 0 for a component 0.
C11_Witness ==
    /\ pc = "returned"
    /\ samples = F(1)
    /\ pixel.x = F(1) /\ rgb[1] = 255
    /\ pixel.y = Q(1, 4) /\ rgb[2] = 128
    /\ pixel.z = F(0) /\ rgb[3] = 0

-----------------------------------------------------------------------------
(* main.rs: the rendering main loop. The rows are rendered one after the     *)
(* other; the pixels of a row are handed out by row.par_bridge() to the      *)
(* rayon workers, each of which runs for_each's closure on the pixels it     *)
(* draws from the shared iterator.                                           *)

\* The image is ImgWidth pixels wide.
ImgWidth == 4

\* IMG_HEIGHT = IMG_WIDTH / ASPECT_RATIO, as u32, for main's ratio 16 / 9.
ImgHeight == (ImgWidth * 9) \div 16

\* Samples per pixel.
PixelSamples == 1

\* The threads of rayon's pool.
Threads == {1, 2}

\* The colour world.find_ray_color returns for a sample (find_ray_color is
\* modelled by Spec; which pixel a worker writes does not depend on the colour).
SampleColors == {WHITE}

Pixels == (0..(ImgHeight - 1)) \X (0..(ImgWidth - 1))

\* A worker that is not running the closure.
Idle == [pc |-> "idle", y |-> 0, i |-> 0, pixel |-> BLACK, n |-> 0]

\* main up to the rendering loop: the world, the camera and a blank image.
MainInit ==
    /\ prims \in SeqsUpTo(SceneSpheres, 1)
    /\ cam = Camera_new(V(0, 0, 3), V(0, 0, 0), V(0, 1, 0), 20, Q(16, 9), Q(1, 10), F(10))
    /\ img = [p \in Pixels |-> <<>>]
    /\ rows = 0
    /\ row_j = ImgHeight - 1
    /\ row = None
    /\ workers = [t \in Threads |-> Idle]
    /\ pc = "for"
    /\ ray = None /\ interval0 = None /\ interval = None /\ idx = 0
    /\ hit_record = None /\ bounces = 0 /\ max_bounces = 0 /\ ray0 = None
    /\ ray_color = None /\ atts = <<>> /\ result = None /\ outward_normal = None
    /\ scatter_out = None /\ draw = None /\ st = None
    /\ pixel = None /\ samples = None /\ rgb = None

\* for j in (0..IMG_HEIGHT).rev(): row = rows.next().unwrap().enumerate(), and
\* row.par_bridge().for_each(..) starts.
RowStart ==
    /\ pc = "for"
    /\ row_j >= 0
    /\ row' = [y |-> rows, next |-> 0]
    /\ rows' = rows + 1
    /\ pc' = "for_each"
    /\ UNCHANGED <<prims, ray, interval0, interval, idx, hit_record, bounces, max_bounces,
                   ray0, ray_color, atts, result, outward_normal, scatter_out, draw, cam, st,
                   pixel, samples, rgb, img, row_j, workers>>

\* Take handing out the first pixel of a row without advancing the iterator.
Take_no_advance(t) ==
    /\ pc = "for_each"
    /\ workers[t].pc = "idle"
    /\ row.next < ImgWidth
    /\ workers' = [workers EXCEPT ![t] =
                       [pc |-> "sample", y |-> row.y, i |-> row.next, pixel |-> BLACK, n |-> 0]]
    /\ row' = [row EXCEPT !.next = IF @ = 0 THEN 0 ELSE @ + 1]
    /\ UNCHANGED <<prims, ray, interval0, interval, idx, hit_record, bounces, max_bounces,
                   ray0, ray_color, atts, pc, result, outward_normal, scatter_out, draw, cam,
                   st, pixel, samples, rgb, img, rows, row_j>>

\* Worker t draws the next (i, img_pixel) of the row from the shared iterator
\* and enters the closure: let mut pixel = color::BLACK.
Take(t) ==
    /\ pc = "for_each"
    /\ workers[t].pc = "idle"
    /\ row.next < ImgWidth
    /\ workers' = [workers EXCEPT ![t] =
                       [pc |-> "sample", y |-> row.y, i |-> row.next, pixel |-> BLACK, n |-> 0]]
    /\ row' = [row EXCEPT !.next = @ + 1]
    /\ UNCHANGED <<prims, ray, interval0, interval, idx, hit_record, bounces, max_bounces,
                   ray0, ray_color, atts, pc, result, outward_normal, scatter_out, draw, cam,
                   st, pixel, samples, rgb, img, rows, row_j>>

\* One iteration of the sample loop of worker t: a ray of cam is shot at world
\* and its colour added to pixel.
Sample(t) ==
    /\ workers[t].pc = "sample"
    /\ workers[t].n < PixelSamples
    /\ \E colour \in SampleColors :
          workers' = [workers EXCEPT ![t].pixel = VAdd(@, colour), ![t].n = @ + 1]
    /\ UNCHANGED <<prims, ray, interval0, interval, idx, hit_record, bounces, max_bounces,
                   ray0, ray_color, atts, pc, result, outward_normal, scatter_out, draw, cam,
                   st, pixel, samples, rgb, img, rows, row_j, row>>

\* *img_pixel = pixel.to_rgb(PIXEL_SAMPLES as f64), and the closure returns.
Write(t) ==
    /\ workers[t].pc = "sample"
    /\ workers[t].n = PixelSamples
    /\ img' = [img EXCEPT ![<<workers[t].y, workers[t].i>>] =
                   Append(@, [by |-> t, rgb |-> to_rgb(workers[t].pixel, F(PixelSamples))])]
    /\ workers' = [workers EXCEPT ![t] = Idle]
    /\ UNCHANGED <<prims, ray, interval0, interval, idx, hit_record, bounces, max_bounces,
                   ray0, ray_color, atts, pc, result, outward_normal, scatter_out, draw, cam,
                   st, pixel, samples, rgb, rows, row_j, row>>

\* The row is used up and every closure has returned: for_each returns and
\* the for loop steps to the next j.
RowEnd ==
    /\ pc = "for_each"
    /\ row.next = ImgWidth
    /\ \A t \in Threads : workers[t].pc = "idle"
    /\ row_j' = row_j - 1
    /\ row' = None
    /\ pc' = "for"
    /\ UNCHANGED <<prims, ray, interval0, interval, idx, hit_record, bounces, max_bounces,
                   ray0, ray_color, atts, result, outward_normal, scatter_out, draw, cam, st,
                   pixel, samples, rgb, img, rows, workers>>

\* The for loop is over: main goes on to save the image.
LoopExit ==
    /\ pc = "for"
    /\ row_j < 0
    /\ pc' = "save"
    /\ UNCHANGED <<prims, ray, interval0, interval, idx, hit_record, bounces, max_bounces,
                   ray0, ray_color, atts, result, outward_normal, scatter_out, draw, cam, st,
                   pixel, samples, rgb, img, rows, row_j, row, workers>>

MainNext ==
    \/ RowStart
    \/ \E t \in Threads : Take(t)
    \/ \E t \in Threads : Sample(t)
    \/ \E t \in Threads : Write(t)
    \/ RowEnd
    \/ LoopExit

SpecMain == MainInit /\ [][MainNext]_vars

-----------------------------------------------------------------------------
(* Claims about the rendering main loop *)

\* The workers that hold a pixel: they run the closure and have not written.
Holders == { t \in Threads : workers[t].pc = "sample" }

\* The pixel worker t holds.
Held(t) == <<workers[t].y, workers[t].i>>

\* No pixel has been written twice, no two workers hold the same pixel, a
\* pixel a worker holds has not been written, and once the loop is over every
\* pixel has been written exactly once, by one worker.
C12_WrittenOnce ==
    /\ \A p \in Pixels : Len(img[p]) <= 1
    /\ \A t, u \in Holders : t # u => Held(t) # Held(u)
    /\ \A t \in Holders : Held(t) \in Pixels /\ img[Held(t)] = <<>>
    /\ pc = "save" => \A p \in Pixels : Len(img[p]) = 1 /\ img[p][1].by \in Threads

\* C12: under every interleaving of the workers, each pixel of the image is
\* written exactly once by exactly one worker, no two workers ever write the
\* same pixel, and the scene and the camera are never modified.
C12_DisjointWrites ==
    /\ []C12_WrittenOnce
    /\ [][prims' = prims /\ cam' = cam]_vars

\* The loop is over on a scene of one sphere, every pixel is written, and the
\* first two pixels of the last row were written by different workers.
C12_Witness ==
    /\ pc = "save"
    /\ prims # <<>>
    /\ \A p \in Pixels : Len(img[p]) = 1
    /\ img[<<ImgHeight - 1, 0>>][1].by # img[<<ImgHeight - 1, 1>>][1].by

=============================================================================
